---- MODULE Spec2Model ----
(***************************************************************************)
(* Model of static/script.js, the browser-side controller of TextTube:     *)
(* a submit button posts a video URL to /transcribe, a repeating timer     *)
(* polls /progress, and /cleanup is posted on completion and on unload.    *)
(* Every event handler runs to its next await in one step; the part of an  *)
(* async function after an await is a separate step taken when the         *)
(* awaited request is answered.                                            *)
(***************************************************************************)
EXTENDS Integers, Naturals, Sequences, FiniteSets, Bags, TLC

(* ------------------------------ bounds --------------------------------- *)
\* submissions (POST /transcribe) in one page session
MaxJobs == 3
\* checkProgress calls and beforeunload handlers that have not returned yet
\* (awaiting /progress or /cleanup)
MaxInFlight == 2

(* --------------------------- text helpers ------------------------------ *)
\* Strings the code inspects character by character are sequences of
\* one-character strings.
SetMin(S) == CHOOSE x \in S : \A y \in S : x <= y
SetMax(S) == CHOOSE x \in S : \A y \in S : x >= y

\* String.prototype.includes
Includes(s, sub) ==
    \E i \in 0..(Len(s) - Len(sub)) : SubSeq(s, i + 1, i + Len(sub)) = sub

WhiteSpace == {" ", "\t", "\n"}

\* String.prototype.trim
Trim(s) ==
    LET keep == {i \in 1..Len(s) : s[i] \notin WhiteSpace}
    IN  IF keep = {} THEN << >> ELSE SubSeq(s, SetMin(keep), SetMax(keep))

Digits == {"0", "1", "2", "3", "4", "5", "6", "7", "8", "9"}
DigitVal(c) ==
    CASE c = "0" -> 0 [] c = "1" -> 1 [] c = "2" -> 2 [] c = "3" -> 3
      [] c = "4" -> 4 [] c = "5" -> 5 [] c = "6" -> 6 [] c = "7" -> 7
      [] c = "8" -> 8 [] c = "9" -> 9

\* parseInt on a string of decimal digits
RECURSIVE parseInt(_)
parseInt(ds) ==
    IF ds = << >> THEN 0
    ELSE 10 * parseInt(SubSeq(ds, 1, Len(ds) - 1)) + DigitVal(ds[Len(ds)])

\* last index of the maximal run of digits that starts at i (s[i] is a digit)
RunEnd(s, i) ==
    SetMax({j \in i..Len(s) : \A k \in i..j : s[k] \in Digits})

(* ---------------------------- JS numbers ------------------------------- *)
\* A number is <<n, d>> in lowest terms; d = 0 is a non-finite value:
\* <<0, 0>> is NaN and <<1, 0>> is Infinity.
RECURSIVE GCD(_, _)
GCD(a, b) == IF b = 0 THEN a ELSE GCD(b, a % b)
Rat(n, d) ==
    IF d = 0 THEN (IF n = 0 THEN <<0, 0>> ELSE <<1, 0>>)
    ELSE LET g == GCD(n, d) IN <<n \div g, d \div g>>
Num(k) == <<k, 1>>
NaN == <<0, 0>>
\* truthiness of a number: 0 and NaN are falsy
Truthy(x) == x # Num(0) /\ x # NaN

(* ---------------------------- parseProgress ---------------------------- *)
PercentSign == <<"%">>
sStarting == <<"S", "t", "a", "r", "t", "i", "n", "g">>
sDownload == <<"d", "o", "w", "n", "l", "o", "a", "d">>
sProcessing == <<"P", "r", "o", "c", "e", "s", "s", "i", "n", "g">>
sTranscribing == <<"T", "r", "a", "n", "s", "c", "r", "i", "b", "i", "n", "g">>
sCompleted == <<"c", "o", "m", "p", "l", "e", "t", "e", "d">>
sPart == <<"p", "a", "r", "t", " ">>
sOf == <<" ", "o", "f", " ">>

\* progressText.match(/(\d+)%/): start positions of a match; the leftmost is
\* the match, and its group is the whole digit run.
PercentStarts(s) ==
    {i \in 1..Len(s) : /\ s[i] \in Digits
                       /\ RunEnd(s, i) < Len(s)
                       /\ s[RunEnd(s, i) + 1] = "%"}

\* progressText.match(/part (\d+) of (\d+)/): start positions of a match
PartStarts(s) ==
    {i \in 1..Len(s) :
        /\ i + 5 <= Len(s)
        /\ SubSeq(s, i, i + 4) = sPart
        /\ s[i + 5] \in Digits
        /\ LET e1 == RunEnd(s, i + 5)
           IN  /\ e1 + 5 <= Len(s)
               /\ SubSeq(s, e1 + 1, e1 + 4) = sOf
               /\ s[e1 + 5] \in Digits}

\* parseProgress with the stage keywords tried before the percent sign
parseProgress_KeywordsFirst(progressText) ==
    IF Includes(progressText, sStarting) THEN Num(5)
    ELSE IF Includes(progressText, sDownload) THEN Num(20)
    ELSE IF Includes(progressText, sProcessing) THEN Num(40)
    ELSE IF Includes(progressText, sCompleted) THEN Num(100)
    ELSE IF Includes(progressText, PercentSign)
    THEN LET m == PercentStarts(progressText)
         IN  IF m # {}
             THEN LET i == SetMin(m)
                  IN  Num(parseInt(SubSeq(progressText, i, RunEnd(progressText, i))))
             ELSE Num(0)
    ELSE Num(0)

\* parseProgress going on to the stage keywords when no digits precede a "%"
parseProgress_FallThrough(progressText) ==
    IF PercentStarts(progressText) # {}
    THEN LET i == SetMin(PercentStarts(progressText))
         IN  Num(parseInt(SubSeq(progressText, i, RunEnd(progressText, i))))
    ELSE IF Includes(progressText, sStarting) THEN Num(5)
    ELSE IF Includes(progressText, sDownload) THEN Num(20)
    ELSE IF Includes(progressText, sProcessing) THEN Num(40)
    ELSE IF /\ Includes(progressText, sTranscribing)
            /\ PartStarts(progressText) # {}
    THEN LET i == SetMin(PartStarts(progressText))
             e1 == RunEnd(progressText, i + 5)
             e2 == RunEnd(progressText, e1 + 5)
             current == parseInt(SubSeq(progressText, i + 5, e1))
             total == parseInt(SubSeq(progressText, e1 + 5, e2))
         IN  IF total = 0 THEN Rat(current, 0)
             ELSE Rat(40 * total + 50 * current, total)
    ELSE IF Includes(progressText, sCompleted) THEN Num(100)
    ELSE Num(0)

parseProgress(progressText) ==
    IF Includes(progressText, PercentSign)
    THEN LET m == PercentStarts(progressText)
         IN  IF m # {}
             THEN LET i == SetMin(m)
                  IN  Num(parseInt(SubSeq(progressText, i, RunEnd(progressText, i))))
             ELSE Num(0)
    ELSE IF Includes(progressText, sStarting) THEN Num(5)
    ELSE IF Includes(progressText, sDownload) THEN Num(20)
    ELSE IF Includes(progressText, sProcessing) THEN Num(40)
    ELSE IF /\ Includes(progressText, sTranscribing)
            /\ PartStarts(progressText) # {}
    THEN LET i == SetMin(PartStarts(progressText))
             e1 == RunEnd(progressText, i + 5)
             e2 == RunEnd(progressText, e1 + 5)
             current == parseInt(SubSeq(progressText, i + 5, e1))
             total == parseInt(SubSeq(progressText, e1 + 5, e2))
         IN  \* 40 + (current / total * 50)
             IF total = 0 THEN Rat(current, 0)
             ELSE Rat(40 * total + 50 * current, total)
    ELSE IF Includes(progressText, sCompleted) THEN Num(100)
    ELSE Num(0)

(* ------------------------------ inputs --------------------------------- *)
sYoutubeCom == <<"y", "o", "u", "t", "u", "b", "e", ".", "c", "o", "m", "/">>
sYoutuBe == <<"y", "o", "u", "t", "u", ".", "b", "e", "/">>

\* values the user may have typed into the URL input
Urls ==
    { << >>,
      <<" ">>,
      <<"a", ".", "i", "o">>,
      <<"y", "o", "u", "t", "u", "b", "e", ".", "c", "o", "m">>,
      <<"y", "o", "u", "t", "u", ".", "b", "e", "/", "a">>,
      <<" ", "y", "o", "u", "t", "u", "b", "e", ".", "c", "o", "m", "/", "w", " ">> }

\* progress texts the server reports; << >> is an absent (or empty) field
PollTexts ==
    { << >>,
      <<"S", "t", "a", "r", "t", "i", "n", "g", " ", "2", "0", "%">>,
      sCompleted }

\* error texts of a payload; "" is an empty string (falsy in the code)
ErrorTexts == {"", "boom"}

\* messages of thrown errors (fetch rejecting, response.json() failing)
ThrownMessages == {"Failed to fetch"}

\* the payloads of GET /progress; the transcription comes with, and only
\* with, finished
PollPayloads ==
    { d \in [progress : PollTexts, transcription : {"", "hi"},
             finished : BOOLEAN, hasError : BOOLEAN, error : ErrorTexts] :
        /\ ~d.hasError => d.error = ""
        /\ d.transcription # "" <=> d.finished }

NoPayload ==
    [progress |-> << >>, transcription |-> "", finished |-> FALSE,
     hasError |-> FALSE, error |-> ""]

\* what awaiting fetch + response.json() can produce: a 2xx answer, a non-2xx
\* answer (only its error field is read), or a thrown error
PollResponses ==
    { [status |-> "ok", data |-> d, message |-> ""] : d \in PollPayloads }
    \cup { [status |-> "notok", data |-> [NoPayload EXCEPT !.hasError = (e # ""), !.error = e],
            message |-> ""] : e \in ErrorTexts }
    \cup { [status |-> "throw", data |-> NoPayload, message |-> m] : m \in ThrownMessages }

TranscribeResponses ==
    { [status |-> "ok", error |-> "", message |-> ""] }
    \cup { [status |-> "notok", error |-> e, message |-> ""] : e \in ErrorTexts }
    \cup { [status |-> "throw", error |-> "", message |-> m] : m \in ThrownMessages }

\* await fetch('/cleanup') resolves (whatever the status) or rejects
CleanupOutcomes ==
    { [status |-> "resolved", message |-> ""] }
    \cup { [status |-> "rejected", message |-> m] : m \in ThrownMessages }

(* ------------------------------- state --------------------------------- *)
VARIABLES
    isTranscribing,       \* the busy flag
    progressInterval,     \* the timer handle held by the script; 0 is null
    timers,               \* the browser's timers: handle -> status
    btnDisabled,          \* elements.transcribeButton.disabled
    inputDisabled,        \* elements.urlInput.disabled
    progressBar,          \* elements.progressBar.value
    progressText,         \* elements.progressText.textContent
    textColor,            \* elements.progressText.style.color
    transcriptionOutput,  \* elements.transcriptionOutput.value
    jobs,                 \* number of POST /transcribe issued so far
    transReqs,            \* handleTranscription calls awaiting /transcribe
    progReqs,             \* checkProgress calls awaiting /progress (a bag)
    cleanupWaits,         \* checkProgress calls awaiting /cleanup (a bag)
    cleanupCount,         \* job -> POST /cleanup issued by the polling loop
    unloadCleanups        \* beforeunload handlers awaiting /cleanup

vars ==
    <<isTranscribing, progressInterval, timers, btnDisabled, inputDisabled,
      progressBar, progressText, textColor, transcriptionOutput, jobs,
      transReqs, progReqs, cleanupWaits, cleanupCount, unloadCleanups>>

Handles == 1..MaxJobs
NoTimer == 0

\* textContent is prefix + str + seq; str holds texts the code only copies,
\* seq holds a progress text
Msg(str) == [prefix |-> "", str |-> str, seq |-> << >>]
ProgressMsg(seq) == [prefix |-> "", str |-> "", seq |-> seq]
ErrorMsg(str) == [prefix |-> "Error: ", str |-> str, seq |-> << >>]

\* calls suspended at an await of /progress or /cleanup
InFlight == BagCardinality(progReqs) + BagCardinality(cleanupWaits) + unloadCleanups

activeTimers == {h \in Handles : timers[h] = "active"}

\* The part of the state the utility functions work on, as one record.
Cur ==
    [isTranscribing |-> isTranscribing, progressInterval |-> progressInterval,
     timers |-> timers, btnDisabled |-> btnDisabled, inputDisabled |-> inputDisabled,
     progressBar |-> progressBar, progressText |-> progressText,
     textColor |-> textColor, transcriptionOutput |-> transcriptionOutput,
     progReqs |-> progReqs, cleanupWaits |-> cleanupWaits]

Commit(s) ==
    /\ isTranscribing' = s.isTranscribing
    /\ progressInterval' = s.progressInterval
    /\ timers' = s.timers
    /\ btnDisabled' = s.btnDisabled
    /\ inputDisabled' = s.inputDisabled
    /\ progressBar' = s.progressBar
    /\ progressText' = s.progressText
    /\ textColor' = s.textColor
    /\ transcriptionOutput' = s.transcriptionOutput
    /\ progReqs' = s.progReqs
    /\ cleanupWaits' = s.cleanupWaits

Init ==
    /\ isTranscribing = FALSE
    /\ progressInterval = NoTimer
    /\ timers = [h \in Handles |-> "unused"]
    /\ btnDisabled = FALSE
    /\ inputDisabled = FALSE
    /\ progressBar = Num(0)
    /\ progressText = Msg("")
    /\ textColor = ""
    /\ transcriptionOutput = ""
    /\ jobs = 0
    /\ transReqs = {}
    /\ progReqs = EmptyBag
    /\ cleanupWaits = EmptyBag
    /\ cleanupCount = [h \in Handles |-> 0]
    /\ unloadCleanups = 0

(* -------------------------- utility functions -------------------------- *)
updateUI(s, state) ==
    [s EXCEPT !.btnDisabled = state.isTranscribing,
              !.inputDisabled = state.isTranscribing,
              !.progressBar = IF Truthy(state.progress) THEN state.progress ELSE Num(0),
              !.progressText = state.message,
              !.transcriptionOutput =
                  IF state.transcription # "" THEN state.transcription ELSE @]

\* clearInterval(h); `by` records which function cleared the timer
clearInterval(tm, h, by) ==
    [tm EXCEPT ![h] = IF @ = "active" THEN by ELSE @]

\* Every request in flight when resetState runs is marked: it was started
\* before a reset.
MarkStale(b) ==
    LET S == {[e EXCEPT !.stale = TRUE] : e \in BagToSet(b)}
    IN  IF S = {} THEN EmptyBag
        ELSE [e \in S |-> CopiesIn(e, b) + CopiesIn([e EXCEPT !.stale = FALSE], b)]

\* resetState without its assignment of null to progressInterval
resetState_KeepHandle(s) ==
    [s EXCEPT !.isTranscribing = FALSE,
              !.timers = IF s.progressInterval # NoTimer
                         THEN clearInterval(@, s.progressInterval, "reset")
                         ELSE @,
              !.btnDisabled = FALSE,
              !.inputDisabled = FALSE,
              !.progReqs = MarkStale(@),
              !.cleanupWaits = MarkStale(@)]

resetState(s) ==
    [s EXCEPT !.isTranscribing = FALSE,
              !.timers = IF s.progressInterval # NoTimer
                         THEN clearInterval(@, s.progressInterval, "reset")
                         ELSE @,
              !.progressInterval = NoTimer,
              !.btnDisabled = FALSE,
              !.inputDisabled = FALSE,
              !.progReqs = MarkStale(@),
              !.cleanupWaits = MarkStale(@)]

\* showError without its call of resetState
showError_NoReset(s, message) ==
    [s EXCEPT !.progressText = ErrorMsg(message), !.textColor = "red"]

showError(s, message) ==
    resetState([s EXCEPT !.progressText = ErrorMsg(message), !.textColor = "red"])

\* startProgressChecking without its clearInterval of the timer it holds
startProgressChecking_NoCancel(s, h) ==
    [s EXCEPT !.timers = [@ EXCEPT ![h] = "active"],
              !.progressInterval = h]

\* h is the handle setInterval returns
startProgressChecking(s, h) ==
    [s EXCEPT !.timers = [(IF s.progressInterval # NoTimer
                           THEN clearInterval(@, s.progressInterval, "replaced")
                           ELSE @) EXCEPT ![h] = "active"],
              !.progressInterval = h]

\* a || b on strings
OrElse(a, b) == IF a # "" THEN a ELSE b

(* ------------------------- submitting a job ---------------------------- *)
\* handleTranscription up to its await of fetch('/transcribe').  The url and
\* the model size go into the request body only: nothing after the await
\* reads them, so the suspended call is recorded by its submission number.
handleTranscription(url) ==
    /\ jobs < MaxJobs
    /\ Commit(updateUI([Cur EXCEPT !.isTranscribing = TRUE],
                       [isTranscribing |-> TRUE, progress |-> Num(0),
                        message |-> Msg("Starting transcription..."),
                        transcription |-> ""]))
    /\ jobs' = jobs + 1
    /\ transReqs' = transReqs \cup {[job |-> jobs + 1]}
    /\ UNCHANGED <<cleanupCount, unloadCleanups>>

\* the click listener without its test for a video-host marker
ClickHandler_NoHostCheck(u) ==
    LET url == Trim(u)
    IN  IF url = << >>
        THEN /\ Commit(showError(Cur, "Please enter a YouTube URL"))
             /\ UNCHANGED <<jobs, transReqs, cleanupCount, unloadCleanups>>
        ELSE handleTranscription(url)

\* the click listener of the submit button; u is the URL input's value
ClickHandler(u) ==
    LET url == Trim(u)
    IN  IF url = << >>
        THEN /\ Commit(showError(Cur, "Please enter a YouTube URL"))
             /\ UNCHANGED <<jobs, transReqs, cleanupCount, unloadCleanups>>
        ELSE IF ~Includes(url, sYoutubeCom) /\ ~Includes(url, sYoutuBe)
        THEN /\ Commit(showError(Cur, "Please enter a valid YouTube URL"))
             /\ UNCHANGED <<jobs, transReqs, cleanupCount, unloadCleanups>>
        ELSE handleTranscription(url)

\* a disabled button dispatches no click event
Click(u) ==
    /\ ~btnDisabled
    /\ ClickHandler(u)

\* the keypress listener of the URL input, for the Enter key; a disabled
\* input receives no key events and button.click() does nothing on a
\* disabled button
KeypressEnter(u) ==
    /\ ~inputDisabled
    /\ ~isTranscribing
    /\ ~btnDisabled
    /\ ClickHandler(u)

\* handleTranscription from the answer of /transcribe to its end
TranscribeResponse(r, resp) ==
    /\ r \in transReqs
    /\ transReqs' = transReqs \ {r}
    /\ Commit(CASE resp.status = "ok" -> startProgressChecking(Cur, r.job)
                [] resp.status = "notok" ->
                     showError(Cur, OrElse(OrElse(resp.error, "Failed to start transcription"),
                                           "Failed to start transcription"))
                [] resp.status = "throw" ->
                     showError(Cur, OrElse(resp.message, "Failed to start transcription")))
    /\ UNCHANGED <<jobs, cleanupCount, unloadCleanups>>

(* ------------------------------ polling -------------------------------- *)
\* the timer h fires: checkProgress up to its await of fetch('/progress')
Tick(h) ==
    /\ h \in activeTimers
    /\ InFlight < MaxInFlight
    /\ progReqs' = progReqs (+) SetToBag({[job |-> h, stale |-> FALSE]})
    /\ UNCHANGED <<isTranscribing, progressInterval, timers, btnDisabled,
                   inputDisabled, progressBar, progressText, textColor,
                   transcriptionOutput, jobs, transReqs, cleanupWaits,
                   cleanupCount, unloadCleanups>>

\* the completion test reading the finished flag only
Completion_FlagOnly(data) ==
    data.finished

\* the completion test of checkProgress
Completion(data) ==
    data.finished \/ (data.progress # << >> /\ Includes(data.progress, sCompleted))

\* checkProgress from the answer of /progress to its await of
\* fetch('/cleanup'), or to its end when it issues no cleanup
ProgressResponse(r, resp) ==
    /\ r \in BagToSet(progReqs)
    /\ LET base == [Cur EXCEPT !.progReqs = @ (-) SetToBag({r})]
           data == resp.data
           shown == IF data.progress # << >>
                    THEN updateUI(base, [isTranscribing |-> TRUE,
                                         progress |-> parseProgress(data.progress),
                                         message |-> ProgressMsg(data.progress),
                                         transcription |-> data.transcription])
                    ELSE base
           done == resetState(updateUI(shown, [isTranscribing |-> FALSE,
                                               progress |-> Num(100),
                                               message |-> Msg("Transcription completed!"),
                                               transcription |-> data.transcription]))
       IN  CASE resp.status = "throw" ->
                  /\ Commit(showError(base, OrElse(resp.message, "Error checking progress")))
                  /\ UNCHANGED cleanupCount
             [] resp.status = "notok" ->
                  /\ Commit(showError(base, OrElse(OrElse(data.error, "Failed to check progress"),
                                                   "Error checking progress")))
                  /\ UNCHANGED cleanupCount
             [] resp.status = "ok" /\ Completion(data) ->
                  /\ Commit([done EXCEPT !.cleanupWaits =
                                @ (+) SetToBag({[job |-> r.job, stale |-> FALSE,
                                                 error |-> data.error]})])
                  /\ cleanupCount' = [cleanupCount EXCEPT ![r.job] = @ + 1]
             [] resp.status = "ok" /\ ~Completion(data) ->
                  /\ Commit(IF data.error # ""
                            THEN showError(shown, OrElse(data.error, "Error checking progress"))
                            ELSE shown)
                  /\ UNCHANGED cleanupCount
    /\ UNCHANGED <<jobs, transReqs, unloadCleanups>>

\* checkProgress from the answer of /cleanup to its end
CleanupResponse(w, out) ==
    /\ w \in BagToSet(cleanupWaits)
    /\ LET base == [Cur EXCEPT !.cleanupWaits = @ (-) SetToBag({w})]
       IN  Commit(IF out.status = "rejected"
                  THEN showError(base, OrElse(out.message, "Error checking progress"))
                  ELSE IF w.error # ""
                  THEN showError(base, OrElse(w.error, "Error checking progress"))
                  ELSE base)
    /\ UNCHANGED <<jobs, transReqs, cleanupCount, unloadCleanups>>

(* ------------------------------ unload --------------------------------- *)
\* the beforeunload listener up to its await; it does nothing unless busy
BeforeUnload ==
    /\ isTranscribing
    /\ InFlight < MaxInFlight
    /\ unloadCleanups' = unloadCleanups + 1
    /\ UNCHANGED <<isTranscribing, progressInterval, timers, btnDisabled,
                   inputDisabled, progressBar, progressText, textColor,
                   transcriptionOutput, jobs, transReqs, progReqs,
                   cleanupWaits, cleanupCount>>

\* the beforeunload listener after its await: a rejection is logged only
UnloadCleanupResponse(out) ==
    /\ unloadCleanups > 0
    /\ out \in CleanupOutcomes
    /\ unloadCleanups' = unloadCleanups - 1
    /\ UNCHANGED <<isTranscribing, progressInterval, timers, btnDisabled,
                   inputDisabled, progressBar, progressText, textColor,
                   transcriptionOutput, jobs, transReqs, progReqs,
                   cleanupWaits, cleanupCount>>

(* --------------------------- specification ----------------------------- *)
Next ==
    \/ \E u \in Urls : Click(u)
    \/ \E u \in Urls : KeypressEnter(u)
    \/ \E r \in transReqs, resp \in TranscribeResponses : TranscribeResponse(r, resp)
    \/ \E h \in Handles : Tick(h)
    \/ \E r \in BagToSet(progReqs), resp \in PollResponses : ProgressResponse(r, resp)
    \/ \E w \in BagToSet(cleanupWaits), out \in CleanupOutcomes : CleanupResponse(w, out)
    \/ BeforeUnload
    \/ \E out \in CleanupOutcomes : UnloadCleanupResponse(out)

Spec == Init /\ [][Next]_vars

(* ------------------------------ claims --------------------------------- *)
\* C1: in every reachable state at most one polling timer is active, and an
\* active timer is the one progressInterval holds (no timer runs unreferenced).
C1_AtMostOneTimer ==
    /\ Cardinality(activeTimers) <= 1
    /\ \A h \in activeTimers : progressInterval = h

\* startProgressChecking has replaced a running timer by a new one
C1_Witness ==
    \E h, k \in Handles :
        /\ timers[h] = "replaced"
        /\ timers[k] = "active"
        /\ progressInterval = k

\* C2: handling a /progress or /cleanup answer whose request was started
\* before a resetState leaves the busy flag, the timer handle, the timers and
\* the disabled state of the button and the URL input unchanged.
C2_LateResponseHarmless ==
    [][ /\ \A r \in BagToSet(progReqs), resp \in PollResponses :
              (r.stale /\ ProgressResponse(r, resp))
                  => UNCHANGED <<isTranscribing, progressInterval, timers,
                                 btnDisabled, inputDisabled>>
        /\ \A w \in BagToSet(cleanupWaits), out \in CleanupOutcomes :
              (w.stale /\ CleanupResponse(w, out))
                  => UNCHANGED <<isTranscribing, progressInterval, timers,
                                 btnDisabled, inputDisabled>> ]_vars

\* C3: the polling loop issues exactly one POST /cleanup for a job that
\* completes: a job's count, 0 until its first completion answer, never
\* exceeds 1.
C3_ExactlyOneCleanup ==
    \A j \in Handles : cleanupCount[j] <= 1

\* C4: a step of checkProgress that handles a 2xx answer with finished true,
\* or with a progress text containing "completed", sets the progress bar to
\* 100, clears the busy flag, leaves no timer active, enables the controls
\* and issues one cleanup request; and a timer becomes active again only in a
\* step that handles a successful answer of /transcribe.
C4_CompletionResets ==
    [][ /\ \A r \in BagToSet(progReqs), resp \in PollResponses :
              ( /\ BagCardinality(progReqs') < BagCardinality(progReqs)
                /\ resp.status = "ok"
                /\ resp.data.finished \/ Includes(resp.data.progress, sCompleted)
                /\ ProgressResponse(r, resp) )
              => /\ progressBar' = Num(100)
                 /\ ~isTranscribing'
                 /\ progressInterval' = NoTimer
                 /\ activeTimers' = {}
                 /\ ~btnDisabled'
                 /\ ~inputDisabled'
                 /\ BagCardinality(cleanupWaits') = BagCardinality(cleanupWaits) + 1
                 /\ cleanupCount'[r.job] = cleanupCount[r.job] + 1
        /\ (activeTimers = {} /\ activeTimers' # {})
              => \E r \in transReqs, resp \in TranscribeResponses :
                    resp.status = "ok" /\ TranscribeResponse(r, resp) ]_vars

\* a completion has just been handled: 100 and the completion message are
\* shown, nothing is busy and the cleanup request is awaiting its answer
C4_Witness ==
    /\ progressText = Msg("Transcription completed!")
    /\ progressBar = Num(100)
    /\ ~isTranscribing
    /\ activeTimers = {}
    /\ ~btnDisabled
    /\ \E w \in BagToSet(cleanupWaits) : ~w.stale

\* C5: when checkProgress has handled a polling failure (a non-2xx answer, a
\* thrown error, or a 2xx payload with an error field, whatever its other
\* fields), the error text is displayed, the busy flag is false, no timer is
\* active and the controls are enabled.  The handling ends with the answer of
\* /progress, or with the answer of /cleanup when the payload also carried a
\* completion signal.
C5_PollFailureErrorPath ==
    [][ /\ \A r \in BagToSet(progReqs), resp \in PollResponses :
              ( /\ BagCardinality(progReqs') < BagCardinality(progReqs)
                /\ resp.status # "ok" \/ resp.data.hasError
                /\ ~(resp.status = "ok" /\
                     (resp.data.finished \/ Includes(resp.data.progress, sCompleted)))
                /\ ProgressResponse(r, resp) )
              => /\ progressText' =
                       ErrorMsg(CASE resp.status = "throw" -> resp.message
                                  [] resp.status = "notok" ->
                                       IF resp.data.error # "" THEN resp.data.error
                                       ELSE "Failed to check progress"
                                  [] resp.status = "ok" -> resp.data.error)
                 /\ ~isTranscribing'
                 /\ progressInterval' = NoTimer
                 /\ activeTimers' = {}
                 /\ ~btnDisabled'
                 /\ ~inputDisabled'
        /\ \A w \in BagToSet(cleanupWaits), out \in CleanupOutcomes :
              (w.error # "" /\ CleanupResponse(w, out))
              => /\ progressText' = ErrorMsg(w.error)
                 /\ ~isTranscribing'
                 /\ progressInterval' = NoTimer
                 /\ activeTimers' = {}
                 /\ ~btnDisabled'
                 /\ ~inputDisabled' ]_vars

\* C6: a rejected POST /cleanup, issued by the polling loop or by the
\* beforeunload listener, changes neither the progress text nor the progress
\* bar.
C6_CleanupFailureSilent ==
    [][ /\ \A w \in BagToSet(cleanupWaits), out \in CleanupOutcomes :
              (out.status = "rejected" /\ CleanupResponse(w, out))
              => UNCHANGED <<progressText, progressBar, textColor>>
        /\ \A out \in CleanupOutcomes :
              (out.status = "rejected" /\ UnloadCleanupResponse(out))
              => UNCHANGED <<progressText, progressBar, textColor>> ]_vars

\* the URL is empty after trimming, or has neither video-host marker
InvalidUrl(u) ==
    \/ \A i \in 1..Len(u) : u[i] \in WhiteSpace
    \/ ~Includes(u, sYoutubeCom) /\ ~Includes(u, sYoutuBe)

InvalidUrls == {u \in Urls : InvalidUrl(u)}

ValidationErrors ==
    { ErrorMsg("Please enter a YouTube URL"),
      ErrorMsg("Please enter a valid YouTube URL") }

\* C7: a click (or Enter) with a URL that is empty after trimming, or that has
\* neither "youtube.com/" nor "youtu.be/", issues no request (no POST
\* /transcribe, no /progress, no /cleanup), starts no polling and shows a
\* validation error.
C7_InvalidUrlNoRequest ==
    [][ \A u \in InvalidUrls :
            (Click(u) \/ KeypressEnter(u))
            => /\ jobs' = jobs
               /\ transReqs' = transReqs
               /\ BagCardinality(progReqs') = BagCardinality(progReqs)
               /\ BagCardinality(cleanupWaits') = BagCardinality(cleanupWaits)
               /\ unloadCleanups' = unloadCleanups
               /\ activeTimers' = {}
               /\ progressText' \in ValidationErrors ]_vars

\* a validation error is on display and no request was ever issued
C7_Witness ==
    /\ progressText = ErrorMsg("Please enter a valid YouTube URL")
    /\ textColor = "red"
    /\ jobs = 0
    /\ transReqs = {}

\* C8: when handleTranscription handles a failed POST /transcribe (a non-2xx
\* answer or a thrown error), the button and the URL input are enabled, the
\* busy flag is false, the server's error text (or the default when it is
\* absent) is shown as an error and no timer is active.
C8_FailedSubmissionResets ==
    [][ \A r \in transReqs, resp \in TranscribeResponses :
            (resp.status # "ok" /\ TranscribeResponse(r, resp))
            => /\ ~btnDisabled'
               /\ ~inputDisabled'
               /\ ~isTranscribing'
               /\ progressText' =
                     ErrorMsg(IF resp.status = "notok" /\ resp.error # "" THEN resp.error
                              ELSE IF resp.status = "throw" /\ resp.message # ""
                              THEN resp.message
                              ELSE "Failed to start transcription")
               /\ textColor' = "red"
               /\ progressInterval' = NoTimer
               /\ activeTimers' = {} ]_vars

\* a submission has failed with no error text from the server: the default is
\* shown and the controls are enabled, with nothing left in flight
C8_Witness ==
    /\ progressText = ErrorMsg("Failed to start transcription")
    /\ jobs = 1
    /\ transReqs = {}
    /\ ~btnDisabled
    /\ ~inputDisabled
    /\ ~isTranscribing
    /\ activeTimers = {}

\* no job is believed active, no timer runs and the controls are enabled
Idle ==
    /\ ~isTranscribing
    /\ activeTimers = {}
    /\ ~btnDisabled
    /\ ~inputDisabled

\* Every request is eventually answered, an active timer keeps firing, and
\* the server eventually reports completion or an error.
FairSpec ==
    /\ Spec
    /\ WF_vars(\E r \in transReqs, resp \in TranscribeResponses : TranscribeResponse(r, resp))
    /\ WF_vars(\E h \in Handles : Tick(h))
    /\ WF_vars(\E r \in BagToSet(progReqs), resp \in PollResponses : ProgressResponse(r, resp))
    /\ SF_vars(\E r \in BagToSet(progReqs), resp \in PollResponses :
                  /\ resp.status # "ok" \/ resp.data.finished \/ resp.data.error # ""
                  /\ ProgressResponse(r, resp))
    /\ WF_vars(\E w \in BagToSet(cleanupWaits), out \in CleanupOutcomes : CleanupResponse(w, out))
    /\ WF_vars(\E out \in CleanupOutcomes : UnloadCleanupResponse(out))

\* C9: every submitted job eventually brings the session to Idle, and the
\* session leaves Idle only by a submit click (or Enter).
C9_ReturnsToIdle ==
    /\ (isTranscribing ~> Idle)
    /\ [][ (Idle /\ ~Idle')
             => \E u \in Urls : Click(u) \/ KeypressEnter(u) ]_vars

\* C10: a POST /transcribe is issued only while no other POST /transcribe is
\* awaiting its answer and no polling timer is active.
C10_SingleJobInFlight ==
    [][ (jobs' = jobs + 1) => (transReqs = {} /\ activeTimers = {}) ]_vars

(* ------------------- parseProgress as a pure function ------------------ *)
\* largest X and Y of the "part X of Y" texts tried
MaxPart == 3

DigitStr ==
    [n \in 0..9 |-> CASE n = 0 -> <<"0">> [] n = 1 -> <<"1">> [] n = 2 -> <<"2">>
                      [] n = 3 -> <<"3">> [] n = 4 -> <<"4">> [] n = 5 -> <<"5">>
                      [] n = 6 -> <<"6">> [] n = 7 -> <<"7">> [] n = 8 -> <<"8">>
                      [] n = 9 -> <<"9">>]

\* The texts tried are lead \o part \o pct \o tail.
\* lead: a stage keyword or nothing
LeadFragments ==
    { <<>>,
      <<"S", "t", "a", "r", "t", "i", "n", "g", " ">>,
      <<"d", "o", "w", "n", "l", "o", "a", "d", " ">>,
      <<"P", "r", "o", "c", "e", "s", "s", "i", "n", "g", " ">>,
      <<"T", "r", "a", "n", "s", "c", "r", "i", "b", "i", "n", "g", " ">> }

\* part: "part X of Y " or nothing; absent is x = y = -1
PartFragments ==
    { [str |-> << >>, x |-> -1, y |-> -1] }
    \cup { [str |-> sPart \o DigitStr[x] \o sOf \o DigitStr[y] \o <<" ">>, x |-> x, y |-> y] :
             x \in 0..MaxPart, y \in 0..MaxPart }

\* pct: a piece with or without "%"; percent: it has a "%" character; match:
\* some "%" of it follows a digit; first: the number before the first such "%"
PctFragments ==
    { [str |-> <<>>, percent |-> FALSE, match |-> FALSE, first |-> 0],
      [str |-> <<"7", "%">>, percent |-> TRUE, match |-> TRUE, first |-> 7],
      [str |-> <<"0", "%">>, percent |-> TRUE, match |-> TRUE, first |-> 0],
      [str |-> <<"1", "5", "0", "%">>, percent |-> TRUE, match |-> TRUE, first |-> 150],
      [str |-> <<"7", "%", " ", "9", "%">>, percent |-> TRUE, match |-> TRUE, first |-> 7],
      [str |-> <<"7", "%", " ", "%">>, percent |-> TRUE, match |-> TRUE, first |-> 7],
      [str |-> <<"%">>, percent |-> TRUE, match |-> FALSE, first |-> 0],
      [str |-> <<"a", "%">>, percent |-> TRUE, match |-> FALSE, first |-> 0],
      [str |-> <<"7", " ", "%">>, percent |-> TRUE, match |-> FALSE, first |-> 0] }

\* tail: the completion marker or nothing
TailFragments == { << >>, sCompleted }

ParseCases ==
    { [text |-> l \o p.str \o q.str \o e, lead |-> l, part |-> p, pct |-> q, tail |-> e] :
        l \in LeadFragments, p \in PartFragments, q \in PctFragments, e \in TailFragments }

\* parseProgress is applied to one text, on the page as loaded: progressText
\* holds the text and progressBar the value returned (without updateUI's
\* "|| 0")
ParseStep(c) ==
    /\ progressText = Msg("")
    /\ progressBar = Num(0)
    /\ progressText' = ProgressMsg(c.text)
    /\ progressBar' = parseProgress(c.text)
    /\ UNCHANGED <<isTranscribing, progressInterval, timers, btnDisabled,
                   inputDisabled, textColor, transcriptionOutput, jobs,
                   transReqs, progReqs, cleanupWaits, cleanupCount,
                   unloadCleanups>>

ParseNext == \E c \in ParseCases : ParseStep(c)

ParseSpec == Init /\ [][ParseNext]_vars

\* the cases whose text is the one parsed in the current state
Parsed == {c \in ParseCases : progressText = ProgressMsg(c.text)}

\* C11: for every input text parseProgress returns an integer from 0 to 100.
C11_IntegerInRange ==
    /\ progressBar[2] = 1
    /\ progressBar[1] \in 0..100

\* the stage keywords written in front of the parsed text
KeywordLeads == LeadFragments \ {<< >>}

\* C12: a text containing "N%" (digits immediately followed by a percent
\* sign) yields N whatever stage keywords it also contains, and the first
\* such N when it contains several.
C12_PercentWins ==
    \A c \in Parsed : c.pct.match => progressBar = Num(c.pct.first)

\* a text with a stage keyword, "completed" and two "N%" has been parsed
C12_Witness ==
    \E c \in Parsed :
        /\ c.lead \in KeywordLeads
        /\ c.tail = sCompleted
        /\ Cardinality(PercentStarts(c.text)) > 1
        /\ progressBar = Num(c.pct.first)

\* 40 + (X / Y) * 50 as JavaScript computes it
PartValue(x, y) ==
    IF y = 0 THEN (IF x = 0 THEN NaN ELSE <<1, 0>>)
    ELSE Rat(40 * y + 50 * x, y)

\* C13: a text with "Transcribing" and "part X of Y", no "%" and none of
\* "Starting", "download", "Processing" yields 40 + (X/Y)*50, and that value
\* is at most 90 for every X and Y.
C13_PartAtMost90 ==
    \A c \in Parsed :
        (/\ Includes(c.text, sTranscribing)
         /\ c.part.x >= 0
         /\ ~c.pct.percent
         /\ ~Includes(c.text, sStarting)
         /\ ~Includes(c.text, sDownload)
         /\ ~Includes(c.text, sProcessing))
        => /\ progressBar = PartValue(c.part.x, c.part.y)
           /\ progressBar[2] > 0
           /\ progressBar[1] <= 90 * progressBar[2]

(* ----------------------- unload, reset and the flag --------------------- *)
\* C14: the beforeunload listener sends POST /cleanup exactly when
\* isTranscribing is true, so that an unload while a submission awaits its
\* response or a polling timer is active sends a cleanup request.
C14_UnloadSendsCleanup ==
    /\ ENABLED BeforeUnload => isTranscribing
    /\ (/\ transReqs # {} \/ activeTimers # {}
        /\ InFlight < MaxInFlight)
       => ENABLED BeforeUnload

\* C15: resetState run when no timer is active (progressInterval is null or
\* the timer was cancelled by an earlier reset) leaves the timers as they
\* are, and a second resetState leaves the state of the first: not busy, no
\* timer, controls enabled.
C15_ResetIdempotent ==
    LET r == resetState(Cur)
    IN  /\ Cur.progressInterval = NoTimer => r.timers = Cur.timers
        /\ activeTimers = {} => r.timers = Cur.timers
        /\ resetState(r) = r
        /\ ~r.isTranscribing
        /\ r.progressInterval = NoTimer
        /\ \A h \in Handles : r.timers[h] # "active" \/ h # Cur.progressInterval
        /\ ~r.btnDisabled
        /\ ~r.inputDisabled

\* a timer was cancelled by a reset, and a rejected click has since run
\* resetState again
C15_Witness ==
    /\ \E h \in Handles : timers[h] = "reset"
    /\ progressText \in ValidationErrors
    /\ progressInterval = NoTimer
    /\ resetState(Cur) = Cur
    /\ Idle

\* C16: in every reachable state an active polling timer implies that
\* isTranscribing is true.
C16_TimerImpliesBusy ==
    activeTimers # {} => isTranscribing

\* C17: in every reachable state a disabled submit button or URL input
\* implies that isTranscribing is true, so the controls are never left
\* disabled with no submission in flight and no timer active.
C17_DisabledImpliesBusy ==
    /\ (btnDisabled \/ inputDisabled) => isTranscribing
    /\ (btnDisabled \/ inputDisabled) => (transReqs # {} \/ activeTimers # {})

(* ------------------- parseProgress and a bare "%" ----------------------- *)
\* C18 as stated: a text containing a "%" that is not immediately preceded
\* by a digit yields 0.
C18_AnyBarePercentZero ==
    \A c \in Parsed :
        (\E i \in 1..Len(c.text) :
            /\ c.text[i] = "%"
            /\ (i = 1 \/ c.text[i - 1] \notin Digits))
        => progressBar = Num(0)

\* C18: a text that contains "%" but no "%" immediately preceded by a digit
\* yields 0 whatever stage keywords it contains; the keyword rules apply
\* only to text with no "%" at all.
C18_NoDigitPercentZero ==
    \A c \in Parsed :
        c.pct.percent =>
            progressBar = IF c.pct.match THEN Num(c.pct.first) ELSE Num(0)

\* a text with a stage keyword and a "%" that no digit precedes has been
\* parsed to 0
C18_Witness ==
    \E c \in Parsed :
        /\ c.lead \in KeywordLeads
        /\ c.pct.percent
        /\ ~c.pct.match
        /\ progressBar = Num(0)

====
